---- MODULE Spec2Model ----
(***************************************************************************)
(* The fixture-provisioning script testing.py as a state machine.          *)
(*                                                                         *)
(* The script is one sequential thread of control (the module body, lines  *)
(* 233-346) that starts external processes.  Two kinds of process run in   *)
(* the background: the solana-keygen children started by create_keypair    *)
(* with Popen and never waited for, and the solana-test-validator child    *)
(* started by start_validator.  Every other child is run with              *)
(* subprocess.run / os.system, which block until the child exits.          *)
(***************************************************************************)
EXTENDS Integers, Sequences, FiniteSets, TLC

(***************************************************************************)
(* Bounds of the model.                                                    *)
(***************************************************************************)
\* How many provisioning commands of one run may print an address that is
\* already in the registry (the external tools are opaque: nothing in the
\* script makes their answers distinct).
MaxShared == 1

(***************************************************************************)
(* Program constants.                                                      *)
(***************************************************************************)
TOKEN_2022 == "TokenzQdBNbLqP5VEhdkAS6EPFLC1PHnBqCXEpPxuEb"
TOKEN == "TokenkegQfeZyiNwAJbNbGKPFXCWuBvf9Ss623VQ5DA"

\* The names given to create_keypair, i.e. the identity files <name>.json.
Names == {"test-pid", "payer", "mint_2022", "mint", "whitelist"}

\* Values a Python name or expression can have that are not program data.
Unset == "<unset>"            \* a global not assigned yet (NameError on read)
IndexError == "<IndexError>"  \* list index out of range
NoneText == "None"            \* str(None)

(***************************************************************************)
(* The module body as a table of steps, in source order.                   *)
(* Registry arguments are given by key (accounts[key] is looked up when    *)
(* the step runs); owner "@wallet" is the global wallet_address.           *)
(***************************************************************************)
Wallet == "@wallet"

MintStep(k, tp) == [op |-> "create_mint", key |-> k, tp |-> tp]
TokenAccountStep(k, m, o, tp) ==
    [op |-> "create_token_account", key |-> k, mint |-> m, owner |-> o, tp |-> tp]
WhitelistStep(k, m) == [op |-> "create_whitelist", key |-> k, mint |-> m]
TicketStep(k, m) == [op |-> "create_ticket", key |-> k, mint |-> m]
RunStep(tool, fs) == [op |-> "run", tool |-> tool, files |-> fs]

KeypairPhase == <<
    [op |-> "create_keypair", name |-> "test-pid"],
    [op |-> "get_address", name |-> "test-pid", var |-> "program_id"],
    [op |-> "patch"],
    [op |-> "create_keypair", name |-> "payer"],
    [op |-> "get_address", name |-> "payer", var |-> "wallet_address"],
    [op |-> "create_keypair", name |-> "mint_2022"],
    [op |-> "create_keypair", name |-> "mint"],
    [op |-> "create_keypair", name |-> "whitelist"] >>

StartPhase == <<
    [op |-> "start_validator"],
    [op |-> "poll"] >>

BuildPhase == <<
    RunStep("cargo build-bpf", {}),
    RunStep("solana program deploy", {"test-pid", "payer"}),
    RunStep("cargo build cli", {}),
    RunStep("cargo build blink", {}),
    RunStep("cargo install blink", {}) >>

ProvisioningPhase == <<
    MintStep("mint_2022", 2022),
    MintStep("mint", 0),
    TokenAccountStep("wallet_token_account_2022", "mint_2022", Wallet, 2022),
    TokenAccountStep("wallet_token_account", "mint", Wallet, 0),
    WhitelistStep("whitelist_2022", "mint_2022"),
    WhitelistStep("whitelist", "mint"),
    TokenAccountStep("vault_2022", "mint_2022", "whitelist_2022", 2022),
    TokenAccountStep("vault", "mint", "whitelist", 0),
    [op |-> "allow_registration", mint |-> "mint_2022"],
    [op |-> "allow_registration", mint |-> "mint"],
    TicketStep("ticket_account_2022", "mint_2022"),
    TicketStep("ticket_account", "mint"),
    TokenAccountStep("ticket_token_account_2022", "mint_2022", "ticket_account_2022", 2022),
    TokenAccountStep("ticket_token_account", "mint", "ticket_account", 0) >>

SnapshotPhase == << [op |-> "snapshot"] >>

CleanupPhase == <<
    [op |-> "remove", name |-> "mint"],
    [op |-> "remove", name |-> "mint_2022"],
    [op |-> "remove", name |-> "whitelist"],
    [op |-> "remove", name |-> "payer"],
    RunStep("pkill solana-test-validator", {}) >>

TestPhase == <<
    RunStep("cargo test", {}),
    [op |-> "prompt"] >>

\* Mutant of Program: the vault of the legacy mint is stored under the
\* key of the 2022 vault (a copied line whose key was not edited).
Program_vaultKeyCopied ==
    KeypairPhase \o StartPhase \o BuildPhase
        \o [ProvisioningPhase EXCEPT ![8].key = "vault_2022"]
        \o SnapshotPhase \o CleanupPhase \o TestPhase

\* Mutant of Program: the vaults are created before the whitelists that
\* own them.
Program_vaultBeforeWhitelist ==
    KeypairPhase \o StartPhase \o BuildPhase
        \o [ProvisioningPhase EXCEPT ![5] = ProvisioningPhase[7], ![6] = ProvisioningPhase[8],
                                     ![7] = ProvisioningPhase[5], ![8] = ProvisioningPhase[6]]
        \o SnapshotPhase \o CleanupPhase \o TestPhase

\* Mutant of Program: registration is enabled before the whitelists are
\* initialised (the two phases exchanged).
Program_allowBeforeWhitelist ==
    KeypairPhase \o StartPhase \o BuildPhase
        \o [ProvisioningPhase EXCEPT ![5] = ProvisioningPhase[9], ![6] = ProvisioningPhase[10],
                                     ![9] = ProvisioningPhase[5], ![10] = ProvisioningPhase[6]]
        \o SnapshotPhase \o CleanupPhase \o TestPhase

\* Mutant of Program: the clean-up comes before the snapshot loop.
Program_cleanupBeforeSnapshot ==
    KeypairPhase \o StartPhase \o BuildPhase \o ProvisioningPhase
        \o CleanupPhase \o SnapshotPhase \o TestPhase

Program ==
    KeypairPhase \o StartPhase \o BuildPhase \o ProvisioningPhase
        \o SnapshotPhase \o CleanupPhase \o TestPhase

End == Len(Program) + 1


(***************************************************************************)
(* Addresses.  The external tools are opaque; their answers are modelled   *)
(* as named addresses.  IdAddr is what `solana address -k <name>.json`     *)
(* prints for the identity file of this run ("fresh") or for one left by   *)
(* an earlier run ("stale").  KeyAddr is the address of the account a      *)
(* provisioning command newly creates for a registry key.                  *)
(***************************************************************************)
IdAddr ==
    [n \in Names |->
        CASE n = "test-pid"  -> [fresh |-> "pid-new",   stale |-> "pid-old"]
          [] n = "payer"     -> [fresh |-> "payer-new", stale |-> "payer-old"]
          [] n = "mint_2022" -> [fresh |-> "m22-new",   stale |-> "m22-old"]
          [] n = "mint"      -> [fresh |-> "m-new",     stale |-> "m-old"]
          [] OTHER           -> [fresh |-> "wl-new",    stale |-> "wl-old"]]

KeyAddr(k) ==
    CASE k = "mint_2022"                 -> "M22"
      [] k = "mint"                      -> "M1"
      [] k = "wallet_token_account_2022" -> "W22"
      [] k = "wallet_token_account"      -> "W1"
      [] k = "whitelist_2022"            -> "WL22"
      [] k = "whitelist"                 -> "WL1"
      [] k = "vault_2022"                -> "V22"
      [] k = "vault"                     -> "V1"
      [] k = "ticket_account_2022"       -> "T22"
      [] k = "ticket_account"            -> "T1"
      [] k = "ticket_token_account_2022" -> "TT22"
      [] k = "ticket_token_account"      -> "TT1"
      [] OTHER                           -> "X"

(***************************************************************************)
(* Standard output of a child and the two inline parsers.                  *)
(* A stdout text is a sequence of lines, a line a sequence of its          *)
(* whitespace-separated tokens (so a blank line is << >>).                 *)
(***************************************************************************)
RECURSIVE DropLeadingBlank(_)
DropLeadingBlank(lines) ==
    IF lines # << >> /\ Head(lines) = << >>
    THEN DropLeadingBlank(Tail(lines))
    ELSE lines

RECURSIVE DropTrailingBlank(_)
DropTrailingBlank(lines) ==
    IF lines # << >> /\ lines[Len(lines)] = << >>
    THEN DropTrailingBlank(SubSeq(lines, 1, Len(lines) - 1))
    ELSE lines

\* str.strip() on the whole text
Strip(lines) == DropTrailingBlank(DropLeadingBlank(lines))

\* .split("\n")[0].split(): "".split("\n") is [""], whose first line has no token
FirstLineTokens(lines) == IF lines = << >> THEN << >> ELSE lines[1]

RECURSIVE Flatten(_)
Flatten(lines) ==
    IF lines = << >> THEN << >> ELSE Head(lines) \o Flatten(Tail(lines))

\* .stdout.strip().split("\n")[0].split()[2].strip()
ParseAddress(stdout) ==
    LET toks == FirstLineTokens(Strip(stdout))
    IN  IF Len(toks) >= 3 THEN toks[3] ELSE IndexError

\* .stdout.strip().split()[1].strip()
ParseTicket(stdout) ==
    LET toks == Flatten(Strip(stdout))
    IN  IF Len(toks) >= 2 THEN toks[2] ELSE IndexError

\* What an address-printing tool (create-token, create-account, init) may
\* write to stdout when it reports address a, and when it reports none.
AddressOutputs(a) ==
    { << >>,
      << <<"Error:">> >>,
      << <<"Creating", "account">>, <<"Address:", a, "done">> >>,
      << <<"Creating", "account", a>>, <<"Signature:", "sig">> >>,
      << << >>, <<"Creating", "account", a, "under", "program">> >> }

\* What `fsp-wl register` may write to stdout.
TicketOutputs(a) ==
    { << >>,
      << <<"Ticket">> >>,
      << <<"Ticket", a>> >>,
      << <<"Ticket">>, <<a>> >> }

(***************************************************************************)
(* State.                                                                  *)
(***************************************************************************)
VARIABLES
    pc,             \* index in Program of the next step of the script
    exitStatus,     \* -1 while the script runs, else its exit status
    abort,          \* "" or the exception that ended the script
    file,           \* file[n]: <n>.json is "absent", "stale" or "fresh"
    keygen,         \* keygen[n]: the solana-keygen child: "none", "running", "done"
    program_id,     \* the global program_id
    wallet_address, \* the global wallet_address
    libId,          \* the id declared by the declare_id! line of lib.rs
    marker,         \* whether lib.rs has a line matching declare_id!
    validator,      \* the validator child: "none", "alive", "exited", "killed"
    vstderr,        \* what the validator child wrote to its stderr
    network,        \* what start_validator concluded: NotStarted, Starting, Running, Failed, Stopped
    printed,        \* the diagnostic lines printed, as [label, value]
    accounts,       \* the registry dict, as the sequence of its items in insertion order
    cmds,           \* every child process started, in order, as [tool, args]
    dumped,         \* iterations of the snapshot loop completed
    rc              \* exit status of the last child whose output is not read

vars == << pc, exitStatus, abort, file, keygen, program_id, wallet_address, libId,
           marker, validator, vstderr, network, printed, accounts, cmds, dumped, rc >>

Running == exitStatus = -1
Step == Program[pc]
At(op) == Running /\ pc \in DOMAIN Program /\ Step.op = op

\* Identity files a run may find in the working directory: none on a fresh
\* checkout; test-pid.json after a run that reached the end (the clean-up
\* never removes it); all of them after a run that was aborted.
StaleSets == { {}, {"test-pid"}, Names }

ValidatorErrors == {"Error: failed to start validator: port in use"}

Init ==
    /\ pc = 1
    /\ exitStatus = -1
    /\ abort = ""
    /\ \E S \in StaleSets : file = [n \in Names |-> IF n \in S THEN "stale" ELSE "absent"]
    /\ keygen = [n \in Names |-> "none"]
    /\ program_id = Unset
    /\ wallet_address = Unset
    /\ libId = "declared-in-repo"
    /\ marker \in BOOLEAN
    /\ validator = "none"
    /\ vstderr = ""
    /\ network = "NotStarted"
    /\ printed = << >>
    /\ accounts = << >>
    /\ cmds = << >>
    /\ dumped = 0
    /\ rc = 0

(***************************************************************************)
(* The registry dict `accounts`.                                           *)
(***************************************************************************)
Keys(acc) == { acc[i].key : i \in DOMAIN acc }
Has(acc, k) == k \in Keys(acc)
Get(acc, k) == acc[CHOOSE i \in DOMAIN acc : acc[i].key = k].addr
\* accounts[k] = a: a new key is appended, an existing key keeps its place
Put(acc, k, a) ==
    IF Has(acc, k)
    THEN [i \in DOMAIN acc |-> IF acc[i].key = k THEN [key |-> k, addr |-> a] ELSE acc[i]]
    ELSE Append(acc, [key |-> k, addr |-> a])

\* Addresses a tool may report for the account it creates for key k.
Shared(acc) == Cardinality({ i \in DOMAIN acc : acc[i].addr # KeyAddr(acc[i].key) })
Reported(acc, k) ==
    {KeyAddr(k)} \cup
        (IF acc # << >> /\ Shared(acc) < MaxShared THEN {acc[Len(acc)].addr} ELSE {})

\* The value of an argument expression: wallet_address or accounts[key].
Arg(o) == IF o = Wallet THEN wallet_address ELSE Get(accounts, o)
\* accounts[key] raises KeyError for a key not in the dict.
Defined(o) == IF o = Wallet THEN wallet_address # Unset ELSE Has(accounts, o)

\* The registry keys and globals the argument expressions of a step read.
Reads(st) ==
    CASE st.op = "start_validator"      -> {Wallet}
      [] st.op = "create_token_account" -> {st.mint, st.owner}
      [] st.op = "create_whitelist"     -> {st.mint, Wallet}
      [] st.op = "create_ticket"        -> {st.mint, Wallet}
      [] st.op = "allow_registration"   -> {st.mint}
      [] OTHER                          -> {}

\* The exception an undefined read raises.
ReadError(st) ==
    IF \E o \in Reads(st) \ {Wallet} : ~Defined(o) THEN "KeyError" ELSE "NameError"

(***************************************************************************)
(* Ways a step ends.                                                       *)
(***************************************************************************)
Raise(exc, status) ==
    /\ abort' = exc
    /\ exitStatus' = status

Continue ==
    /\ pc' = pc + 1
    /\ UNCHANGED << abort, exitStatus >>

\* A child process: the tool, its identifier arguments in command-line
\* order, and the identity files <name>.json named on its command line.
Cmd(tool, args, files) == [tool |-> tool, args |-> args, files |-> files]
Spawn(tool, args, files) == cmds' = Append(cmds, Cmd(tool, args, files))

\* Every provisioning command is given --fee-payer / --payer payer.json.
PayerFile == {"payer"}


(***************************************************************************)
(* Background children.                                                    *)
(***************************************************************************)
\* The solana-keygen child of create_keypair(n) exits, having written
\* <n>.json (--force: over whatever was there).  Nothing waits for it, so
\* it may happen at any later moment, also after the script has ended.
KeygenExit(n) ==
    /\ keygen[n] = "running"
    /\ keygen' = [keygen EXCEPT ![n] = "done"]
    /\ file' = [file EXCEPT ![n] = "fresh"]
    /\ UNCHANGED << pc, exitStatus, abort, program_id, wallet_address, libId, marker,
                    validator, vstderr, network, printed, accounts, cmds, dumped, rc >>

\* The validator child exits by itself, having written text to its stderr.
\* The script looks at the child once, in the poll that ends the warm-up,
\* so only an exit before that poll is followed.
ValidatorExit(text) ==
    /\ validator = "alive"
    /\ network = "Starting"
    /\ validator' = "exited"
    /\ vstderr' = text
    /\ UNCHANGED << pc, exitStatus, abort, file, keygen, program_id, wallet_address,
                    libId, marker, network, printed, accounts, cmds, dumped, rc >>

(***************************************************************************)
(* Steps of the script.                                                    *)
(***************************************************************************)
\* create_keypair: Popen starts solana-keygen and returns at once.
create_keypair ==
    /\ At("create_keypair")
    /\ keygen' = [keygen EXCEPT ![Step.name] = "running"]
    /\ Spawn("solana-keygen new", << >>, {Step.name})
    /\ Continue
    /\ UNCHANGED << file, program_id, wallet_address, libId, marker, validator,
                    vstderr, network, printed, accounts, dumped, rc >>

\* `solana address -k <n>.json`: the address of the file as it is now, and
\* nothing on stdout when there is no file.
AddressOf(n) == IF file[n] = "absent" THEN "" ELSE IdAddr[n][file[n]]

\* get_address, and the assignment of its result to a global.
get_address ==
    /\ At("get_address")
    /\ Spawn("solana address", << >>, {Step.name})
    /\ IF Step.var = "program_id"
       THEN /\ program_id' = AddressOf(Step.name)
            /\ UNCHANGED wallet_address
       ELSE /\ wallet_address' = AddressOf(Step.name)
            /\ UNCHANGED program_id
    /\ Continue
    /\ UNCHANGED << file, keygen, libId, marker, validator, vstderr, network,
                    printed, accounts, dumped, rc >>

\* os.system(sed -i '/declare_id!/c\declare_id!("<program_id>");' lib.rs):
\* sed rewrites the matching line if there is one; its status is not read.
patch ==
    /\ At("patch")
    /\ Spawn("sed", << program_id >>, {})
    /\ libId' = IF marker THEN program_id ELSE libId
    /\ rc' = 0
    /\ Continue
    /\ UNCHANGED << file, keygen, program_id, wallet_address, marker, validator,
                    vstderr, network, printed, accounts, dumped >>

\* start_validator up to the sleep: Popen with stdout and stderr DEVNULL.
start_validator ==
    /\ At("start_validator")
    /\ IF \E o \in Reads(Step) : ~Defined(o)
       THEN /\ Raise(ReadError(Step), 1)
            /\ UNCHANGED << pc, validator, network, cmds >>
       ELSE /\ Spawn("solana-test-validator", << wallet_address >>, {})
            /\ validator' = "alive"
            /\ network' = "Starting"
            /\ Continue
    /\ UNCHANGED << file, keygen, program_id, wallet_address, libId, marker,
                    vstderr, printed, accounts, dumped, rc >>

\* Popen.communicate(): the text of a stream that was piped, None otherwise.
Communicate(stream, text) == IF stream = "PIPE" THEN text ELSE NoneText

\* How start_validator opens the child's streams.
ValidatorStdio == [stdout |-> "DEVNULL", stderr |-> "DEVNULL"]

\* Mutant of start_validator_poll: the failure is reported but exit(1) is
\* missing, so the script goes on to "Validator running" and the build.
start_validator_poll_noExit ==
    /\ At("poll")
    /\ IF validator = "alive"
       THEN /\ network' = "Running"
            /\ printed' = Append(printed, [label |-> "Validator running", value |-> ""])
       ELSE /\ network' = "Failed"
            /\ printed' = printed \o
                 << [label |-> "Failed to start Solana test validator", value |-> ""],
                    [label |-> "STDOUT", value |-> Communicate(ValidatorStdio.stdout, "")],
                    [label |-> "STDERR", value |-> Communicate(ValidatorStdio.stderr, vstderr)] >>
    /\ Continue
    /\ UNCHANGED << file, keygen, program_id, wallet_address, libId, marker,
                    validator, vstderr, accounts, cmds, dumped, rc >>

\* start_validator after the sleep: one poll; exit(1) when the child is gone.
start_validator_poll ==
    /\ At("poll")
    /\ IF validator = "alive"
       THEN /\ network' = "Running"
            /\ printed' = Append(printed, [label |-> "Validator running", value |-> ""])
            /\ Continue
       ELSE /\ network' = "Failed"
            /\ printed' = printed \o
                 << [label |-> "Failed to start Solana test validator", value |-> ""],
                    [label |-> "STDOUT", value |-> Communicate(ValidatorStdio.stdout, "")],
                    [label |-> "STDERR", value |-> Communicate(ValidatorStdio.stderr, vstderr)] >>
            /\ Raise("SystemExit", 1)
            /\ UNCHANGED pc
    /\ UNCHANGED << file, keygen, program_id, wallet_address, libId, marker,
                    validator, vstderr, accounts, cmds, dumped, rc >>

\* A blocking child whose output is not read: the builds, the deploy, the
\* install, pkill and cargo test.  Its exit status is not looked at.
run ==
    /\ At("run")
    /\ Spawn(Step.tool, << >>, Step.files)
    /\ IF Step.tool = "pkill solana-test-validator"
       THEN /\ validator' = IF validator = "alive" THEN "killed" ELSE validator
            /\ network' = "Stopped"
       ELSE UNCHANGED << validator, network >>
    /\ \E status \in {0, 1} : rc' = status
    /\ Continue
    /\ UNCHANGED << file, keygen, program_id, wallet_address, libId, marker,
                    vstderr, printed, accounts, dumped >>


(***************************************************************************)
(* Provisioning steps: a command is built from the registry, run, and the  *)
(* address parsed from its stdout is stored under the step's key.          *)
(***************************************************************************)
\* Mutant of ProgramIdFor: the variant is compared with the string "2022",
\* which the int 2022 never equals.
ProgramIdFor_stringCompare(tp) == IF tp = 2022 /\ FALSE THEN TOKEN_2022 ELSE TOKEN

ProgramIdFor(tp) == IF tp = 2022 THEN TOKEN_2022 ELSE TOKEN

\* The arguments of the step are evaluated, then the command runs and its
\* stdout is parsed (results: what the parser may return); an exception
\* ends the script with status 1.
Provision(tool, args, results) ==
    IF \E o \in Reads(Step) : ~Defined(o)
    THEN /\ Raise(ReadError(Step), 1)
         /\ UNCHANGED << pc, accounts, cmds >>
    ELSE /\ Spawn(tool, args, PayerFile)
         /\ \E parsed \in results :
               IF parsed = IndexError
               THEN /\ Raise("IndexError", 1)
                    /\ UNCHANGED << pc, accounts >>
               ELSE /\ accounts' = Put(accounts, Step.key, parsed)
                    /\ Continue

\* What the address parser makes of the stdout texts the tool may write.
AddressResults ==
    UNION { { ParseAddress(out) : out \in AddressOutputs(a) } :
            a \in Reported(accounts, Step.key) }

\* What the ticket parser makes of the stdout texts fsp-wl register may write.
TicketResults ==
    UNION { { ParseTicket(out) : out \in TicketOutputs(a) } :
            a \in Reported(accounts, Step.key) }

create_mint ==
    /\ At("create_mint")
    /\ Provision("spl-token create-token", << ProgramIdFor(Step.tp) >>,
                 AddressResults)
    /\ UNCHANGED << file, keygen, program_id, wallet_address, libId, marker,
                    validator, vstderr, network, printed, dumped, rc >>

create_token_account ==
    /\ At("create_token_account")
    /\ Provision("spl-token create-account",
                 << ProgramIdFor(Step.tp), Arg(Step.owner), Arg(Step.mint) >>,
                 AddressResults)
    /\ UNCHANGED << file, keygen, program_id, wallet_address, libId, marker,
                    validator, vstderr, network, printed, dumped, rc >>

create_whitelist ==
    /\ At("create_whitelist")
    /\ Provision("fsp-wl init",
                 << Arg(Step.mint), wallet_address >>,
                 AddressResults)
    /\ UNCHANGED << file, keygen, program_id, wallet_address, libId, marker,
                    validator, vstderr, network, printed, dumped, rc >>

\* create_ticket also formats the global wallet_address into its report.
create_ticket ==
    /\ At("create_ticket")
    /\ Provision("fsp-wl register", << Arg(Step.mint) >>,
                 TicketResults)
    /\ UNCHANGED << file, keygen, program_id, wallet_address, libId, marker,
                    validator, vstderr, network, printed, dumped, rc >>

\* allow_registration: the output and the status of the child are not read.
allow_registration ==
    /\ At("allow_registration")
    /\ IF \E o \in Reads(Step) : ~Defined(o)
       THEN /\ Raise(ReadError(Step), 1)
            /\ UNCHANGED << pc, cmds, rc >>
       ELSE /\ Spawn("fsp-wl allow-register", << Arg(Step.mint) >>, PayerFile)
            /\ \E status \in {0, 1} : rc' = status
            /\ Continue
    /\ UNCHANGED << file, keygen, program_id, wallet_address, libId, marker,
                    validator, vstderr, network, printed, accounts, dumped >>

(***************************************************************************)
(* Snapshot loop: for account in accounts: generate_account_binary(...)    *)
(***************************************************************************)
\* generate_account_binary(bin_name, account): `solana account <account>
\* --output-file <test_path>/<bin_name>.bin`; the file is named by bin_name.
\* Mutant of DumpCmd: the .bin file is named by the account's address.
DumpCmd_byAddress(bin_name, account) == Cmd("solana account", << account, account >>, {})

\* args: the account dumped, then the name of the .bin file.
DumpCmd(bin_name, account) == Cmd("solana account", << account, bin_name >>, {})

\* One iteration of the loop, on the next item of the dict.
generate_account_binary ==
    /\ At("snapshot")
    /\ dumped < Len(accounts)
    /\ LET item == accounts[dumped + 1]
       IN  cmds' = Append(cmds, DumpCmd(item.key, item.addr))
    /\ \E status \in {0, 1} : rc' = status
    /\ dumped' = dumped + 1
    /\ UNCHANGED << pc, exitStatus, abort, file, keygen, program_id, wallet_address,
                    libId, marker, validator, vstderr, network, printed, accounts >>

\* The loop ends when the dict is exhausted.
snapshot_done ==
    /\ At("snapshot")
    /\ dumped >= Len(accounts)
    /\ Continue
    /\ UNCHANGED << file, keygen, program_id, wallet_address, libId, marker, validator,
                    vstderr, network, printed, accounts, cmds, dumped, rc >>

(***************************************************************************)
(* Clean-up and the end of the script.                                     *)
(***************************************************************************)
\* os.remove(path): FileNotFoundError when there is no such file.
remove ==
    /\ At("remove")
    /\ IF file[Step.name] = "absent"
       THEN /\ Raise("FileNotFoundError", 1)
            /\ UNCHANGED << pc, file >>
       ELSE /\ file' = [file EXCEPT ![Step.name] = "absent"]
            /\ Continue
    /\ UNCHANGED << keygen, program_id, wallet_address, libId, marker, validator,
                    vstderr, network, printed, accounts, cmds, dumped, rc >>

\* What the user may type at the prompt.
Answers == {"Y", "yes", "n"}

\* bool(s) of a str
Truthy(s) == s # ""

\* validator_tests == "Y" or "y" or "yes"
WantsValidatorTests(validator_tests) ==
    (validator_tests = "Y") \/ Truthy("y") \/ Truthy("yes")

\* The prompt and the if/else after it; either way the script then ends
\* with status 0 (exit(0), or the end of the file).
prompt ==
    /\ At("prompt")
    /\ \E validator_tests \in Answers :
          printed' = Append(printed,
              [label |-> IF WantsValidatorTests(validator_tests)
                         THEN "Starting validator tests..."
                         ELSE "Testing completed",
               value |-> validator_tests])
    /\ pc' = End
    /\ exitStatus' = 0
    /\ UNCHANGED << abort, file, keygen, program_id, wallet_address, libId, marker,
                    validator, vstderr, network, accounts, cmds, dumped, rc >>

(***************************************************************************)
(* Specification.                                                          *)
(***************************************************************************)
Next ==
    \/ \E n \in Names : KeygenExit(n)
    \/ \E text \in ValidatorErrors : ValidatorExit(text)
    \/ create_keypair
    \/ get_address
    \/ patch
    \/ start_validator
    \/ start_validator_poll
    \/ run
    \/ create_mint
    \/ create_token_account
    \/ create_whitelist
    \/ create_ticket
    \/ allow_registration
    \/ generate_account_binary
    \/ snapshot_done
    \/ remove
    \/ prompt

Spec == Init /\ [][Next]_vars


(***************************************************************************)
(* Vocabulary of the properties.                                           *)
(***************************************************************************)
Exited == exitStatus # -1
Tools == { cmds[i].tool : i \in DOMAIN cmds }
StopIssued == "pkill solana-test-validator" \in Tools

\* Index in Program of the first step of each phase after provisioning.
SnapshotAt == Len(KeypairPhase) + Len(StartPhase) + Len(BuildPhase) + Len(ProvisioningPhase) + 1
CleanupAt == SnapshotAt + Len(SnapshotPhase)

\* The identity files the clean-up is to remove.
CleanupNames == { CleanupPhase[i].name : i \in 1..4 }

\* The children a run starts before and while it starts the network.
StartupTools == {"solana-keygen new", "solana address", "sed", "solana-test-validator"}

\* The account dumps issued so far, in order.
IsDump(c) == c.tool = "solana account"
Dumps == SelectSeq(cmds, IsDump)

\* The twelve logical fixture names: six per token program variant.
FixtureKeys ==
    { "mint", "wallet_token_account", "whitelist", "vault",
      "ticket_account", "ticket_token_account",
      "mint_2022", "wallet_token_account_2022", "whitelist_2022", "vault_2022",
      "ticket_account_2022", "ticket_token_account_2022" }

(***************************************************************************)
(* Properties.                                                             *)
(***************************************************************************)
\* C1: when the run ends by abort (exit(1) after the failed liveness poll,
\* or an IndexError of a parser), every identity file the run wrote has
\* been removed and the network stop has been issued.
C1_CleanupOnAbort ==
    (Exited /\ abort \in {"SystemExit", "IndexError"}) =>
        /\ \A n \in Names : keygen[n] = "done" => file[n] = "absent"
        /\ StopIssued

\* C2: a child that is given <n>.json to read (solana address, the deploy,
\* every command with payer.json as fee payer) is started only after the
\* keygen child of create_keypair(n) has exited.
C2_NoReadBeforeGenerated ==
    [][ (cmds' # cmds /\ cmds'[Len(cmds')].tool # "solana-keygen new") =>
            \A n \in cmds'[Len(cmds')].files : keygen[n] = "done" ]_vars

\* C3: when the poll finds the validator gone, the script has ended with a
\* non-zero status and no child other than the keygens, the address
\* look-ups, the patch and the validator itself was ever started.
C3_FailedStartIsFatal ==
    network = "Failed" =>
        /\ Exited
        /\ exitStatus # 0
        /\ Tools \subseteq StartupTools

C3_Witness ==
    /\ network = "Failed"
    /\ validator = "exited"
    /\ exitStatus = 1

\* C4: after a run that ended with status 0, none of the identity files
\* given to create_keypair is on disk.
C4_NoIdentityFileRemains ==
    exitStatus = 0 => \A n \in Names : file[n] = "absent"

\* C5: once the provisioning phases are through, the registry holds the
\* twelve fixture keys, each exactly once, and nothing else.
C5_TwelveEntries ==
    (pc >= SnapshotAt) =>
        /\ Len(accounts) = 12
        /\ Keys(accounts) = FixtureKeys

C5_Witness ==
    /\ exitStatus = 0
    /\ Len(accounts) = 12
    /\ \A v \in {"mint", "mint_2022"} : Has(accounts, v)

\* C6: whatever the next step reads (a registry key, wallet_address) has
\* been inserted by an earlier step, and no run ends in a KeyError or a
\* NameError.
C6_ReadsOnlyInserted ==
    /\ abort \notin {"KeyError", "NameError"}
    /\ (Running /\ pc \in DOMAIN Program) => \A o \in Reads(Step) : Defined(o)

C6_Witness ==
    /\ Has(accounts, "vault_2022")
    /\ At("create_token_account")
    /\ Step.owner = "whitelist"
    /\ Get(accounts, "whitelist") # Get(accounts, "whitelist_2022")

\* C7: no registry value is empty or a parser failure, and no child is run
\* with an empty or missing identifier among its arguments.
C7_NoMalformedIdentifier ==
    /\ \A i \in DOMAIN accounts : accounts[i].addr \notin {"", IndexError, Unset}
    /\ \A i \in DOMAIN cmds : \A j \in DOMAIN cmds[i].args :
           cmds[i].args[j] \notin {"", IndexError, Unset}

\* C8: when the snapshot loop is through, there is one dump per registry
\* entry, in registry order, each of that entry's address into the file
\* named by that entry's key.
C8_OneDumpPerEntry ==
    (pc > SnapshotAt) =>
        LET dumps == Dumps
        IN  /\ Len(dumps) = Len(accounts)
            /\ Len(dumps) = Cardinality(Keys(accounts))
            /\ \A i \in DOMAIN accounts :
                  dumps[i].args = << accounts[i].addr, accounts[i].key >>

C8_Witness ==
    /\ pc > SnapshotAt
    /\ Len(Dumps) = 12
    /\ \E i, j \in DOMAIN accounts : i # j /\ accounts[i].addr = accounts[j].addr

\* C9: start_validator ends in Failed exactly when the child was gone at
\* the poll, in Running when it was alive, and the diagnostic printed in
\* the Failed case shows what the child wrote to stderr.
C9_StartOutcome ==
    /\ network = "Running" => validator = "alive"
    /\ network = "Failed" =>
        /\ validator = "exited"
        /\ \E i \in DOMAIN printed :
              printed[i].label = "STDERR" /\ printed[i].value = vstderr

\* C10: a clean-up that finds an identity file already absent raises no
\* error, still removes the other identity files and still stops the
\* network: a run that reached the clean-up ends without FileNotFoundError,
\* with none of the files it removes on disk and with the stop issued.
C10_CleanupIdempotent ==
    (Exited /\ pc >= CleanupAt) =>
        /\ abort # "FileNotFoundError"
        /\ \A n \in CleanupNames : file[n] = "absent"
        /\ StopIssued


(***************************************************************************)
(* Vocabulary of the properties on the provisioning commands.              *)
(***************************************************************************)
ProvisioningTools ==
    { "spl-token create-token", "spl-token create-account",
      "fsp-wl init", "fsp-wl allow-register", "fsp-wl register" }

\* The children that talk to the validator.
NetworkTools == ProvisioningTools \cup {"solana program deploy", "solana account"}

IsProvisioning(c) == c.tool \in ProvisioningTools
\* The provisioning commands issued so far, in order.
ProvCmds == SelectSeq(cmds, IsProvisioning)

\* The order of the commands of one variant.
PhaseOrder ==
    << "spl-token create-token", "spl-token create-account", "fsp-wl init",
       "spl-token create-account", "fsp-wl allow-register", "fsp-wl register",
       "spl-token create-account" >>

\* The mint address a command is about: the last argument of create-account,
\* the first of the fsp-wl commands.
MintArg(c) == c.args[Len(c.args)]
FspMint(c) == c.args[1]

(***************************************************************************)
(* Properties, continued.                                                  *)
(***************************************************************************)
\* C11: the provisioning commands are issued phase by phase in the order
\* mint, wallet token account, whitelist init, vault, allow-register,
\* ticket, ticket token account, the two variants one after the other in
\* each phase, each fsp-wl command on the mint of its variant; an
\* allow-register for a mint comes after an init for that mint, and a
\* register after an allow-register for it.  Stated of the commands issued
\* up to the end of the provisioning phases; after them the child last
\* started is never a provisioning command.
C11_PhaseOrder ==
    IF pc > SnapshotAt
    THEN ~IsProvisioning(cmds[Len(cmds)])
    ELSE
    LET pcs == ProvCmds
        fsp == {"fsp-wl init", "fsp-wl allow-register", "fsp-wl register"}
    IN  /\ Len(pcs) <= 2 * Len(PhaseOrder)
        /\ \A k \in DOMAIN pcs :
              /\ pcs[k].tool = PhaseOrder[(k + 1) \div 2]
              /\ pcs[k].tool \in fsp
                    => FspMint(pcs[k]) =
                          Get(accounts, IF k % 2 = 1 THEN "mint_2022" ELSE "mint")
        /\ \A i \in DOMAIN pcs :
              /\ pcs[i].tool = "fsp-wl allow-register" =>
                    \E j \in 1..(i - 1) : /\ pcs[j].tool = "fsp-wl init"
                                          /\ FspMint(pcs[j]) = FspMint(pcs[i])
              /\ pcs[i].tool = "fsp-wl register" =>
                    \E j \in 1..(i - 1) : /\ pcs[j].tool = "fsp-wl allow-register"
                                          /\ FspMint(pcs[j]) = FspMint(pcs[i])

C11_Witness ==
    /\ Len(ProvCmds) = 2 * Len(PhaseOrder)
    /\ pc >= SnapshotAt
    /\ Get(accounts, "mint") # Get(accounts, "mint_2022")

\* C12: apart from the validator, a child is started only when no child
\* started earlier is still alive.
C12_OneChildAtATime ==
    [][ cmds' # cmds => \A n \in Names : keygen[n] # "running" ]_vars

\* C13: the k-th provisioning command of kind create-token or
\* create-account carries the Token2022 program id exactly when its step
\* is called with variant 2022 and the legacy id otherwise, the two ids
\* differ, and every create-account carries the program id with which a
\* mint of that address was created.  Stated of the commands issued up to
\* the end of the provisioning phases; no token command is started later.
C13_VariantsNotMixed ==
    IF pc > SnapshotAt
    THEN cmds[Len(cmds)].tool \notin {"spl-token create-token", "spl-token create-account"}
    ELSE
    LET pcs == ProvCmds
    IN  /\ TOKEN # TOKEN_2022
        /\ \A k \in DOMAIN pcs :
              pcs[k].tool \in {"spl-token create-token", "spl-token create-account"} =>
                 /\ k \in DOMAIN ProvisioningPhase
                 /\ pcs[k].args[1] =
                       IF ProvisioningPhase[k].tp = 2022 THEN TOKEN_2022 ELSE TOKEN
        /\ \A k \in DOMAIN pcs :
              pcs[k].tool = "spl-token create-account" =>
                 \E m \in 1..(k - 1) :
                    /\ pcs[m].tool = "spl-token create-token"
                    /\ pcs[m].args[1] = pcs[k].args[1]
                    /\ Has(accounts, ProvisioningPhase[m].key)
                    /\ Get(accounts, ProvisioningPhase[m].key) = MintArg(pcs[k])

C13_Witness ==
    /\ Has(accounts, "ticket_token_account")
    /\ Has(accounts, "ticket_token_account_2022")
    /\ Get(accounts, "mint") # Get(accounts, "mint_2022")

\* C14: when lib.rs has no line matching declare_id!, the program build is
\* never started.
C14_PatchFailsLoudly ==
    ~marker => "cargo build-bpf" \notin Tools

\* C15: the script ends only at its end, at the failed liveness poll or in
\* a step that parses the output of its child; never in a step whose
\* child's output is not read, whatever that child's exit status.
C15_OnlyStartOrParseAborts ==
    Exited =>
        \/ pc = End /\ abort = ""
        \/ /\ pc \in DOMAIN Program
           /\ Program[pc].op \in {"poll", "create_mint", "create_token_account",
                                  "create_whitelist", "create_ticket"}
           /\ abort \in {"SystemExit", "IndexError"}

\* C16: the validator test phase is announced only for the answers "Y",
\* "y" and "yes"; after any other answer "Testing completed" is printed.
C16_PromptGates ==
    \A i \in DOMAIN printed :
        /\ printed[i].label = "Starting validator tests..."
              => printed[i].value \in {"Y", "y", "yes"}
        /\ (printed[i].label \in {"Starting validator tests...", "Testing completed"}
               /\ printed[i].value \notin {"Y", "y", "yes"})
              => printed[i].label = "Testing completed"

\* C17: once the patch step has rewritten the declaration, the declared id
\* is the address of the test-pid.json written by this run's keygen (the
\* file the deploy is given): not the empty string, not the address of a
\* file left by an earlier run.
C17_PatchedIdIsDeployedId ==
    (marker /\ "sed" \in Tools) => libId = IdAddr["test-pid"].fresh

\* C18: whenever the child last started is one that talks to the
\* validator, the poll has seen the validator alive and the stop has not
\* been issued; whenever it is the stop, every registry entry has been
\* dumped and every os.remove step lies behind.
C18_NetworkRunningForCommands ==
    cmds # << >> =>
        LET last == cmds[Len(cmds)]
        IN  /\ last.tool \in NetworkTools =>
                  /\ network = "Running"
                  /\ ~StopIssued
            /\ last.tool = "pkill solana-test-validator" =>
                  /\ network = "Stopped"
                  /\ Len(Dumps) = Len(accounts)
                  /\ Len(accounts) = 12
                  /\ \A i \in DOMAIN Program : Program[i].op = "remove" => i < pc

C18_Witness ==
    /\ cmds # << >>
    /\ cmds[Len(cmds)].tool = "pkill solana-test-validator"
    /\ Len(Dumps) = 12
    /\ validator = "killed"

====
